---- MODULE Spec2Model ----
(***************************************************************************)
(* Paper acquisition pipeline of the AgriResearch Streamlit application:   *)
(*   pages/search_engine.py          multi-lane search and deduplication   *)
(*   pages/3_Sorting_and_Filtering.py  two-stage filter and selection      *)
(*   pages/4_PDF_Downloader.py       strategy chain for PDF retrieval      *)
(* Each page is a script the framework runs from top to bottom; the state  *)
(* that survives a run is st.session_state.                                *)
(***************************************************************************)
EXTENDS Integers, Sequences, FiniteSets, TLC

VARIABLES
    \* ---- st.session_state and sidebar configuration
    serp_key,            \* TRUE when a SerpAPI key is present
    openai_key,          \* TRUE when an OpenAI key is present
    all_papers,          \* st.session_state.all_papers
    scored_papers,       \* st.session_state.scored_papers
    selected_paper_ids,  \* st.session_state.selected_paper_ids
    download_results,    \* st.session_state.download_results
    \* ---- pages/search_engine.py, locals of the "Run Multi-Path Search" handler
    pc,                  \* position of the search handler
    search_outcome,      \* how the last search run ended
    lanes,               \* which of num_research/num_review/num_thesis are > 0
    all_results,         \* the list being built
    seen,                \* the set of lowercased titles
    encountered,         \* every hit met so far, in dispatch order (history)
    hits_left,           \* how many more hits the adapters deliver in the run
    \* ---- llm_filter_stage_1 applied to drawn inputs
    s1_papers,           \* the pool passed in
    s1_response,         \* the "indices" list of the triage answer
    s1_result,           \* what the call returned, once applied
    \* ---- pages/3_Sorting_and_Filtering.py, "Start AI Refinement" and widgets
    r_pc,                \* position of the refinement handler
    refine_outcome,      \* how the last refinement run ended
    top_candidates,      \* what llm_filter_stage_1 returned
    r_i,                 \* loop index of llm_score_stage_2
    refined_papers,      \* the list llm_score_stage_2 builds
    score_log,           \* per scoring call of the run: did it succeed (history)
    last_widget,         \* the last widget handler that ran (history)
    \* ---- pages/4_PDF_Downloader.py
    core_key,            \* TRUE when a CORE key was typed in
    use_scihub,          \* the Sci-Hub checkbox
    d_pc,                \* position of the download handler
    selected_papers,     \* the selected entries of scored_papers
    d_idx,               \* index of the paper being processed
    strategies,          \* the chain built for that paper
    d_sidx,              \* how many strategies of the chain were tried
    pdf_content,         \* what the last strategy returned
    successful_strategy, \* name recorded on success
    results_success,     \* results['success']
    results_failed,      \* results['failed']
    invoked,             \* strategy calls made for the current paper (history)
    first_raised,        \* place in `invoked` of the first call that raised, or 0
    exhausted            \* papers whose whole chain gave nothing (history)

sessionVars == <<serp_key, openai_key, all_papers, scored_papers,
                 selected_paper_ids, download_results>>

searchVars == <<pc, search_outcome, lanes, all_results, seen, encountered,
                hits_left>>

stage1Vars == <<s1_papers, s1_response, s1_result>>

page3Vars == <<r_pc, refine_outcome, top_candidates, r_i, refined_papers,
               score_log, last_widget>>

dlVars == <<core_key, use_scihub, d_pc, selected_papers, d_idx, strategies,
            d_sidx, pdf_content, successful_strategy, results_success,
            results_failed, invoked, first_raised, exhausted>>

vars == <<sessionVars, searchVars, stage1Vars, page3Vars, dlVars>>

\* what the search page never writes
nonSearchVars == <<stage1Vars, page3Vars, dlVars>>

----------------------------------------------------------------------------
(* Python values *)

\* Python's None where a title is expected.  A title is a sequence of
\* one-character strings, so no title equals it.
None == <<"NoneType">>

LowerChar(c) ==
    IF c = "A" THEN "a" ELSE IF c = "B" THEN "b" ELSE c

\* str.lower()
Lower(t) == [i \in DOMAIN t |-> LowerChar(t[i])]

\* truth value of a title in `if p['title']`
Truthy(t) == t # None /\ t # <<>>

----------------------------------------------------------------------------
(* pages/search_engine.py: the "Run Multi-Path Search" handler *)

\* Titles the backends may return: same words in different case and spacing,
\* an unrelated title, the empty title, and a missing title.
Titles ==
    { <<"a", " ", "b">>, <<"A", " ", "b">>, <<"a", " ", " ", "b">>, <<"c">>,
      <<>>, None }

\* the "source" tag each adapter writes
ResearchSources == {"Google Scholar", "OpenAlex", "Semantic Scholar"}
ReviewSources == {"Google Scholar", "Semantic Scholar"}
ThesisSources == {"KrishiKosh Thesis"}

\* hits delivered by the adapters during one search
MaxHits == 3

Hit(t, src) == [title |-> t, source |-> src]

Tagged(p, type) == [title |-> p.title, source |-> p.source, type |-> type]

\* the stage after `from`: a lane whose slider is 0 is skipped
AfterStage(from, ls) ==
    IF from = "start" /\ ls.research THEN "research_queries"
    ELSE IF from \in {"start", "research"} /\ ls.review THEN "review_queries"
    ELSE IF from \in {"start", "research", "review"} /\ ls.thesis
         THEN "thesis_queries"
    ELSE "save"

\* The button: without both keys the handler only shows an error.
RunSearchNoKeys ==
    /\ pc = "idle"
    /\ ~(serp_key /\ openai_key)
    /\ search_outcome' = "no_keys"
    /\ UNCHANGED <<sessionVars, nonSearchVars, pc, lanes, all_results, seen,
                   encountered, hits_left>>

RunSearch ==
    /\ pc = "idle"
    /\ serp_key /\ openai_key
    /\ \E r \in BOOLEAN, v \in BOOLEAN, t \in BOOLEAN :
          /\ lanes' = [research |-> r, review |-> v, thesis |-> t]
          /\ pc' = AfterStage("start", lanes')
    /\ all_results' = <<>>
    /\ seen' = {}
    /\ encountered' = <<>>
    /\ hits_left' = MaxHits
    /\ search_outcome' = "running"
    /\ UNCHANGED <<sessionVars, nonSearchVars>>

LaneOf(stage) ==
    IF stage \in {"research_queries", "research"} THEN "research"
    ELSE IF stage \in {"review_queries", "review"} THEN "review"
    ELSE "thesis"

\* generate_queries_llm is called outside any try: a failed call or an
\* unparsable answer ends the handler before all_papers is stored.
GenerateQueries ==
    /\ pc \in {"research_queries", "review_queries", "thesis_queries"}
    /\ \E ok \in BOOLEAN :
          /\ pc' = IF ok THEN LaneOf(pc) ELSE "idle"
          /\ search_outcome' = IF ok THEN search_outcome ELSE "raised"
    /\ UNCHANGED <<sessionVars, nonSearchVars, lanes, all_results, seen,
                   encountered, hits_left>>

\* One pass of the merge loop of the research and review lanes.
MergeChecked(p, type) ==
    IF Truthy(p.title) /\ Lower(p.title) \notin seen
    THEN /\ all_results' = Append(all_results, Tagged(p, type))
         /\ seen' = seen \cup {Lower(p.title)}
    ELSE UNCHANGED <<all_results, seen>>

MergeResearch ==
    /\ pc = "research"
    /\ hits_left > 0
    /\ \E t \in Titles, src \in ResearchSources :
          /\ MergeChecked(Hit(t, src), "Research")
          /\ encountered' = Append(encountered, Hit(t, src))
    /\ hits_left' = hits_left - 1
    /\ UNCHANGED <<sessionVars, nonSearchVars, pc, search_outcome, lanes>>

MergeReview ==
    /\ pc = "review"
    /\ hits_left > 0
    /\ \E t \in Titles, src \in ReviewSources :
          /\ MergeChecked(Hit(t, src), "Review")
          /\ encountered' = Append(encountered, Hit(t, src))
    /\ hits_left' = hits_left - 1
    /\ UNCHANGED <<sessionVars, nonSearchVars, pc, search_outcome, lanes>>

\* The thesis lane calls tr['title'].lower() with no test of the title:
\* a missing title raises and ends the handler.
MergeThesis ==
    /\ pc = "thesis"
    /\ hits_left > 0
    /\ \E t \in Titles, src \in ThesisSources :
          /\ encountered' = Append(encountered, Hit(t, src))
          /\ IF t = None
             THEN /\ pc' = "idle"
                  /\ search_outcome' = "raised"
                  /\ UNCHANGED <<all_results, seen>>
             ELSE /\ pc' = pc
                  /\ search_outcome' = search_outcome
                  /\ IF Lower(t) \notin seen
                     THEN /\ all_results' =
                                Append(all_results, Tagged(Hit(t, src), "Thesis"))
                          /\ seen' = seen \cup {Lower(t)}
                     ELSE UNCHANGED <<all_results, seen>>
    /\ hits_left' = hits_left - 1
    /\ UNCHANGED <<sessionVars, nonSearchVars, lanes>>

\* the queries of the lane are exhausted
EndLane ==
    /\ pc \in {"research", "review", "thesis"}
    /\ pc' = AfterStage(pc, lanes)
    /\ UNCHANGED <<sessionVars, nonSearchVars, search_outcome, lanes, all_results,
                   seen, encountered, hits_left>>

SaveResults ==
    /\ pc = "save"
    /\ all_papers' = all_results
    /\ pc' = "idle"
    /\ search_outcome' = "stored"
    /\ UNCHANGED <<serp_key, openai_key, scored_papers, selected_paper_ids,
                   download_results, nonSearchVars, lanes, all_results, seen, encountered, hits_left>>

\* the search page with no run started
SearchIdle ==
    /\ pc = "idle"
    /\ search_outcome = "none"
    /\ lanes = [research |-> FALSE, review |-> FALSE, thesis |-> FALSE]
    /\ all_results = <<>>
    /\ seen = {}
    /\ encountered = <<>>
    /\ hits_left = 0

----------------------------------------------------------------------------
(* pages/3_Sorting_and_Filtering.py: llm_filter_stage_1 *)

\* the prompt asks the model for "the TOP 50"
ShortlistSize == 50

\* papers[:300]
PrefixLimit == 300

\* pool sizes and answer lengths drawn for the small inputs
MaxPool == 2
MaxIndices == 3

Elems(q) == {q[i] : i \in DOMAIN q}

RECURSIVE SortedAsc(_)
\* sorted(list(S)) for a set of integers
SortedAsc(S) ==
    IF S = {} THEN <<>>
    ELSE LET m == CHOOSE x \in S : \A y \in S : x <= y
         IN  <<m>> \o SortedAsc(S \ {m})

\* seq[:n]
Take(q, n) == SubSeq(q, 1, IF Len(q) < n THEN Len(q) ELSE n)

\* papers[i] raises IndexError outside -len..len-1
PyInRange(papers, i) == -Len(papers) <= i /\ i < Len(papers)

\* papers[i]: a negative index counts from the end
PyItem(papers, i) ==
    IF i >= 0 THEN papers[i + 1] ELSE papers[Len(papers) + i + 1]

DedupIndices_NoSet(response) == response

\* indices = sorted(list(set(data.get("indices", []))))
DedupIndices(response) == SortedAsc(Elems(response))

\* the part of llm_filter_stage_1 after the answer is parsed
llm_filter_stage_1(papers, response) ==
    LET indices == DedupIndices(response)
        kept == SelectSeq(indices, LAMBDA i : i < Len(papers))
    IN  IF \E k \in DOMAIN kept : ~PyInRange(papers, kept[k])
        THEN [raised |-> TRUE, out |-> <<>>]
        ELSE [raised |-> FALSE,
              out |-> [k \in DOMAIN kept |-> PyItem(papers, kept[k])]]

\* a title of n characters: pools built from these have distinct titles
TitleOfLen(n) == [j \in 1..n |-> "c"]

PoolOfSize(k) ==
    [i \in 1..k |-> [title |-> TitleOfLen(i), source |-> "OpenAlex",
                     type |-> "Research"]]

\* the answers drawn for a pool of k papers: every short list over the
\* indices around the pool, and for a large pool the lists naming all of it
IndexLists(k) ==
    IF k <= MaxPool
    THEN UNION {[1..n -> (-(k + 1))..(k + 1)] : n \in 0..MaxIndices}
    ELSE {[i \in 1..n |-> i - 1] : n \in {k, k + 1}}

Stage1Pending == [done |-> FALSE, raised |-> FALSE, out |-> <<>>]

ApplyStage1 ==
    /\ ~s1_result.done
    /\ LET r == llm_filter_stage_1(s1_papers, s1_response)
       IN  s1_result' = [done |-> TRUE, raised |-> r.raised, out |-> r.out]
    /\ UNCHANGED <<sessionVars, searchVars, page3Vars, dlVars, s1_papers,
                   s1_response>>

Stage1Idle ==
    /\ s1_papers = <<>>
    /\ s1_response = <<>>
    /\ s1_result = Stage1Pending

----------------------------------------------------------------------------
(* pages/3_Sorting_and_Filtering.py: llm_score_stage_2, "Start AI Refinement" *)

\* hashlib.md5(title).hexdigest(): equal for equal titles, taken to differ for
\* different ones
generate_paper_id(title) == <<"md5">> \o title

\* What one scoring call gives: an exception (the call fails, or its content
\* is no JSON object), or a JSON object in which "score" and "category" may
\* each be missing or outside what the prompt asked for.
FailedAnswer ==
    [ok |-> FALSE, has_score |-> FALSE, score |-> 0, has_category |-> FALSE,
     category |-> ""]

JsonAnswer(hs, sc, hc, c) ==
    [ok |-> TRUE, has_score |-> hs, score |-> sc, has_category |-> hc,
     category |-> c]

ScoreFields == {<<FALSE, 0>>, <<TRUE, 40>>, <<TRUE, 90>>, <<TRUE, 150>>}

CategoryFields ==
    {<<FALSE, "">>, <<TRUE, "Research">>, <<TRUE, "Review">>,
     <<TRUE, "Thesis">>, <<TRUE, "Research Article">>}

Answers ==
    {FailedAnswer} \cup
    {JsonAnswer(sf[1], sf[2], cf[1], cf[2]) : sf \in ScoreFields,
                                              cf \in CategoryFields}

\* the answers drawn inside a whole refinement run
RunAnswers ==
    {FailedAnswer, JsonAnswer(TRUE, 40, TRUE, "Review"),
     JsonAnswer(TRUE, 90, FALSE, ""), JsonAnswer(FALSE, 0, TRUE, "Thesis"),
     JsonAnswer(TRUE, 150, TRUE, "Research Article")}

DigitChar(d) == <<"0", "1", "2", "3", "4", "5", "6", "7", "8", "9">>[d + 1]

RECURSIVE Decimal(_)
\* str(n) for n >= 0
Decimal(n) ==
    IF n < 10 THEN <<DigitChar(n)>>
    ELSE Decimal(n \div 10) \o <<DigitChar(n % 10)>>

\* f"{i}_{generate_paper_id(p['title'])}": the string kept under 'id', of
\* which the model keeps the two parts
FormatId(id) == Decimal(id.idx) \o <<"_">> \o id.hash

NewPaper_HashOnly(i, p, ans) ==
    [title |-> p.title,
     source |-> p.source,
     type |-> p.type,
     relevance_score |-> IF ans.has_score THEN ans.score ELSE 0,
     category |-> IF p.type \in {"Thesis", "Review"} THEN p.type
                  ELSE IF ans.has_category THEN ans.category
                  ELSE "Research",
     id |-> [idx |-> 0, hash |-> generate_paper_id(p.title)]]

\* lines 66-77: the record appended for paper p at loop index i
NewPaper(i, p, ans) ==
    [title |-> p.title,
     source |-> p.source,
     type |-> p.type,
     relevance_score |-> IF ans.has_score THEN ans.score ELSE 0,
     category |-> IF p.type \in {"Thesis", "Review"} THEN p.type
                  ELSE IF ans.has_category THEN ans.category
                  ELSE "Research",
     id |-> [idx |-> i, hash |-> generate_paper_id(p.title)]]

Stage2Step_AppendsTwice(refined, i, p, ans) ==
    IF ans.ok
    THEN Append(Append(refined, NewPaper(i, p, ans)), NewPaper(i, p, ans))
    ELSE refined

Stage2Step_KeepFailed(refined, i, p, ans) ==
    Append(refined, NewPaper(i, p, ans))

\* one pass of the loop of llm_score_stage_2: try ... except Exception: pass
Stage2Step(refined, i, p, ans) ==
    IF ans.ok THEN Append(refined, NewPaper(i, p, ans)) ELSE refined

NoWidget == [kind |-> "none", id |-> [idx |-> 0, hash |-> <<>>],
             before |-> {}, after |-> {}, raised |-> FALSE]

StartRefinementNoKey_ClearsSelection ==
    /\ r_pc = "idle"
    /\ all_papers # <<>>
    /\ ~openai_key
    /\ refine_outcome' = "no_key"
    /\ selected_paper_ids' = {}
    /\ UNCHANGED <<serp_key, openai_key, all_papers, scored_papers,
                   download_results, searchVars, stage1Vars, dlVars, r_pc,
                   top_candidates, r_i, refined_papers, score_log, last_widget>>

\* the button without an OpenAI key: an error message and nothing else
StartRefinementNoKey ==
    /\ r_pc = "idle"
    /\ all_papers # <<>>
    /\ ~openai_key
    /\ refine_outcome' = "no_key"
    /\ UNCHANGED <<sessionVars, searchVars, stage1Vars, dlVars, r_pc,
                   top_candidates, r_i, refined_papers, score_log, last_widget>>

\* answers drawn for the triage call of a run over k papers
MaxPicks == 2

RunIndexLists(k) == UNION {[1..n -> (-1)..k] : n \in 0..MaxPicks}

\* The button with a key: llm_filter_stage_1 over papers[:300].  The triage
\* call is outside any try: when it fails, or the indexing raises, the handler
\* ends and the session is as before.
StartRefinement ==
    /\ r_pc = "idle"
    /\ all_papers # <<>>
    /\ openai_key
    /\ \E call_ok \in BOOLEAN :
       \E response \in RunIndexLists(Len(Take(all_papers, PrefixLimit))) :
          LET r == llm_filter_stage_1(Take(all_papers, PrefixLimit), response)
          IN  IF call_ok /\ ~r.raised
              THEN /\ top_candidates' = r.out
                   /\ r_pc' = "stage2"
                   /\ refine_outcome' = "running"
              ELSE /\ top_candidates' = <<>>
                   /\ r_pc' = "idle"
                   /\ refine_outcome' = "raised"
    /\ r_i' = 0
    /\ refined_papers' = <<>>
    /\ score_log' = <<>>
    /\ UNCHANGED <<sessionVars, searchVars, stage1Vars, dlVars, last_widget>>

ScoreItem ==
    /\ r_pc = "stage2"
    /\ r_i < Len(top_candidates)
    /\ \E ans \in RunAnswers :
          /\ refined_papers' =
                Stage2Step(refined_papers, r_i, top_candidates[r_i + 1], ans)
          /\ score_log' = Append(score_log, ans.ok)
    /\ r_i' = r_i + 1
    /\ UNCHANGED <<sessionVars, searchVars, stage1Vars, dlVars, r_pc,
                   refine_outcome, top_candidates, last_widget>>

SelectionAfterRun_Kept(sel) == sel

\* line 116: st.session_state.selected_paper_ids = set()
SelectionAfterRun(sel) == {}

\* lines 115-117
StoreScored ==
    /\ r_pc = "stage2"
    /\ r_i = Len(top_candidates)
    /\ scored_papers' = refined_papers
    /\ selected_paper_ids' = SelectionAfterRun(selected_paper_ids)
    /\ r_pc' = "idle"
    /\ refine_outcome' = "stored"
    /\ UNCHANGED <<serp_key, openai_key, all_papers, download_results,
                   searchVars, stage1Vars, dlVars, top_candidates, r_i, refined_papers, score_log,
                   last_widget>>

Page3Idle ==
    /\ r_pc = "idle"
    /\ refine_outcome = "none"
    /\ top_candidates = <<>>
    /\ r_i = 0
    /\ refined_papers = <<>>
    /\ score_log = <<>>
    /\ last_widget = NoWidget

----------------------------------------------------------------------------
(* pages/3_Sorting_and_Filtering.py: DISPLAY LOGIC *)

ResearchLimit == 30
ReviewLimit == 5
ThesisLimit == 5

categories ==
    << [key |-> "Research", limit |-> ResearchLimit],
       [key |-> "Review", limit |-> ReviewLimit],
       [key |-> "Thesis", limit |-> ThesisLimit] >>

RECURSIVE InsertAsc(_, _)
InsertAsc(x, q) ==
    IF q = <<>> THEN <<x>>
    ELSE IF Head(q).relevance_score <= x.relevance_score
         THEN <<Head(q)>> \o InsertAsc(x, Tail(q))
         ELSE <<x>> \o q

RECURSIVE SortByScore_Ascending(_)
SortByScore_Ascending(q) ==
    IF q = <<>> THEN <<>>
    ELSE InsertAsc(q[Len(q)], SortByScore_Ascending(SubSeq(q, 1, Len(q) - 1)))

RECURSIVE InsertDesc_TiesReversed(_, _)
InsertDesc_TiesReversed(x, q) ==
    IF q = <<>> THEN <<x>>
    ELSE IF Head(q).relevance_score > x.relevance_score
         THEN <<Head(q)>> \o InsertDesc_TiesReversed(x, Tail(q))
         ELSE <<x>> \o q

RECURSIVE InsertDesc(_, _)
\* x goes behind every element whose score is at least its own
InsertDesc(x, q) ==
    IF q = <<>> THEN <<x>>
    ELSE IF Head(q).relevance_score >= x.relevance_score
         THEN <<Head(q)>> \o InsertDesc(x, Tail(q))
         ELSE <<x>> \o q

RECURSIVE SortByScore(_)
\* sorted(q, key=relevance_score, reverse=True): stable, equal scores keep
\* their order
SortByScore(q) ==
    IF q = <<>> THEN <<>>
    ELSE InsertDesc(q[Len(q)], SortByScore(SubSeq(q, 1, Len(q) - 1)))

cat_papers(cat) ==
    SortByScore(SelectSeq(scored_papers, LAMBDA p : p.category = cat.key))

selected_in_cat(cat) ==
    SelectSeq(cat_papers(cat), LAMBDA p : p.id \in selected_paper_ids)

remaining_in_cat(cat) ==
    SelectSeq(cat_papers(cat), LAMBDA p : p.id \notin selected_paper_ids)

display_list(cat) == Take(remaining_in_cat(cat), cat.limit)

\* set.remove(x): KeyError when x is not a member
SetRemove(sel, x) ==
    IF x \in sel THEN [raised |-> FALSE, set |-> sel \ {x}]
    ELSE [raised |-> TRUE, set |-> sel]

CheckboxHandler_NoGuards(sel, id, checked) ==
    IF checked THEN [raised |-> FALSE, set |-> sel \cup {id}]
    ELSE SetRemove(sel, id)

\* lines 169-178: what the script does for one rendered checkbox
CheckboxHandler(sel, id, checked) ==
    LET is_selected == id \in sel
    IN  IF checked
        THEN IF id \notin sel THEN [raised |-> FALSE, set |-> sel \cup {id}]
             ELSE [raised |-> FALSE, set |-> sel]
        ELSE IF is_selected THEN SetRemove(sel, id)
             ELSE [raised |-> FALSE, set |-> sel]

\* A checkbox of the candidates column, rendered checked (the user ticked
\* it) or unchecked.
Checkbox ==
    /\ r_pc = "idle"
    /\ \E c \in DOMAIN categories :
       \E k \in DOMAIN display_list(categories[c]) :
       \E checked \in BOOLEAN :
          LET id == display_list(categories[c])[k].id
              r == CheckboxHandler(selected_paper_ids, id, checked)
          IN  /\ selected_paper_ids' = r.set
              /\ last_widget' =
                    [kind |-> IF checked THEN "check" ELSE "uncheck",
                     id |-> id, before |-> selected_paper_ids,
                     after |-> r.set, raised |-> r.raised]
    /\ UNCHANGED <<serp_key, openai_key, all_papers, scored_papers,
                   download_results, searchVars, stage1Vars, dlVars, r_pc, refine_outcome, top_candidates,
                   r_i, refined_papers, score_log>>

\* lines 149-154: the bin button beside a selected paper
ClickRemove ==
    /\ r_pc = "idle"
    /\ \E c \in DOMAIN categories :
       \E k \in DOMAIN selected_in_cat(categories[c]) :
          LET id == selected_in_cat(categories[c])[k].id
              r == SetRemove(selected_paper_ids, id)
          IN  /\ selected_paper_ids' = r.set
              /\ last_widget' =
                    [kind |-> "remove", id |-> id,
                     before |-> selected_paper_ids, after |-> r.set,
                     raised |-> r.raised]
    /\ UNCHANGED <<serp_key, openai_key, all_papers, scored_papers,
                   download_results, searchVars, stage1Vars, dlVars, r_pc, refine_outcome, top_candidates,
                   r_i, refined_papers, score_log>>

----------------------------------------------------------------------------
(* pages/4_PDF_Downloader.py *)

PDF_SIGNATURE == <<"%", "P", "D", "F">>

\* bytes.startswith
StartsWith(b, prefix) ==
    Len(b) >= Len(prefix) /\ SubSeq(b, 1, Len(prefix)) = prefix

\* bodies a server may send: nothing, the bare signature, a PDF, a web page
ByteStrings ==
    { <<>>, PDF_SIGNATURE, PDF_SIGNATURE \o <<"-", "1", ".", "7">>,
      <<"<", "h", "t", "m", "l", ">">> }

StatusCodes == {200, 404}

NoBytes == [is_none |-> TRUE, bytes |-> <<>>]

Bytes(b) == [is_none |-> FALSE, bytes |-> b]

\* `if pdf_content:`  None and b'' are false
PyTruthy(c) == ~c.is_none /\ c.bytes # <<>>

\* download_file without an exception: the first GET is streamed and its
\* first chunk tested for the signature, and then a second GET is made whose
\* content is returned as it comes.
download_file(status, first_chunk, second_body) ==
    IF status = 200 /\ StartsWith(first_chunk, PDF_SIGNATURE)
    THEN Bytes(second_body)
    ELSE NoBytes

\* What a strategy call can end in: an exception, None (nothing to fetch, or
\* download_file caught its own exception), or what download_file returned.
StrategyOutcomes ==
    {[raised |-> TRUE, content |-> NoBytes]} \cup
    {[raised |-> FALSE, content |-> NoBytes]} \cup
    {[raised |-> FALSE, content |-> download_file(st, h, b)] :
        st \in StatusCodes, h \in ByteStrings, b \in ByteStrings}

\* What the call of strategy `name` can end in, given the CORE key.
\* strategy_3_core_api (lines 70-91) adds the Authorization header when the
\* key is there and posts its request either way, and no other strategy of
\* the chain takes an optional key: the outcomes do not depend on the key.
StrategyResult(name, core) == StrategyOutcomes

BuildStrategies_ScihubFirst(serp, scihub) ==
    <<"Sci-Hub", "Direct Link", "Unpaywall", "CORE API", "Semantic Scholar">>
    \o (IF serp THEN <<"Google Scholar">> ELSE <<>>)
    \o <<"ResearchGate", "KrishiKosh Direct", "Web Scraping">>

\* lines 394-411: the chain is the same for every paper
BuildStrategies(serp, scihub) ==
    <<"Direct Link", "Unpaywall", "CORE API", "Semantic Scholar">>
    \o (IF serp THEN <<"Google Scholar">> ELSE <<>>)
    \o <<"ResearchGate", "KrishiKosh Direct", "Web Scraping">>
    \o (IF scihub THEN <<"Sci-Hub">> ELSE <<>>)

ChainStops_Never(content) == FALSE

\* `if pdf_content: ... break`
ChainStops(content) == PyTruthy(content)

AfterCall_RaiseEndsChain(raised, content) ==
    IF raised \/ ChainStops(content) THEN "save" ELSE "chain"

\* lines 416-425: where the loop stands after one call.  The except clause
\* only reports the failure, so a call that raised is followed by the next
\* strategy just as a call that returned nothing.
AfterCall(raised, content) ==
    IF ~raised /\ ChainStops(content) THEN "save" ELSE "chain"

RecordResult_DropFailed(success, failed, paper, content, strategy) ==
    IF PyTruthy(content)
    THEN [success |-> Append(success, [paper |-> paper,
                                       strategy |-> strategy]),
          failed |-> failed]
    ELSE [success |-> success, failed |-> failed]

\* lines 428-457: the file written and listed, or the paper listed as failed
RecordResult(success, failed, paper, content, strategy) ==
    IF PyTruthy(content)
    THEN [success |-> Append(success, [paper |-> paper,
                                       strategy |-> strategy]),
          failed |-> failed]
    ELSE [success |-> success, failed |-> Append(failed, paper)]

\* the key "download_results" is not in st.session_state
NoDownloadResults == [present |-> FALSE, success_count |-> 0]

\* streamlit_app.py, the "Downloaded" metric:
\* download_results.get("success_count", 0) when the key is there, else 0
DashboardDownloaded ==
    IF download_results.present THEN download_results.success_count ELSE 0

\* lines 345-347: the three groups the page counts
research_papers ==
    SelectSeq(selected_papers, LAMBDA p : p.category = "Research Article")

review_papers ==
    SelectSeq(selected_papers, LAMBDA p : p.category = "Review Paper")

theses == SelectSeq(selected_papers, LAMBDA p : p.category = "Thesis")

\* The button.  The page stops above it when nothing is selected.
StartDownload ==
    /\ d_pc \in {"idle", "done"}
    /\ selected_paper_ids # {}
    /\ selected_papers' =
          SelectSeq(scored_papers, LAMBDA p : p.id \in selected_paper_ids)
    /\ results_success' = <<>>
    /\ results_failed' = <<>>
    /\ exhausted' = {}
    /\ d_idx' = 0
    /\ d_pc' = "paper"
    /\ UNCHANGED <<sessionVars, searchVars, stage1Vars, page3Vars, core_key,
                   use_scihub, strategies, d_sidx, pdf_content,
                   successful_strategy, invoked, first_raised>>

BeginPaper ==
    /\ d_pc = "paper"
    /\ d_idx < Len(selected_papers)
    /\ strategies' = BuildStrategies(serp_key, use_scihub)
    /\ d_sidx' = 0
    /\ pdf_content' = NoBytes
    /\ successful_strategy' = "None"
    /\ invoked' = <<>>
    /\ first_raised' = 0
    /\ d_pc' = "chain"
    /\ UNCHANGED <<sessionVars, searchVars, stage1Vars, page3Vars, core_key,
                   use_scihub, selected_papers, d_idx, results_success,
                   results_failed, exhausted>>

\* one pass of `for strategy_name, strategy_func in strategies`
TryStrategy ==
    /\ d_pc = "chain"
    /\ d_sidx < Len(strategies)
    /\ \E o \in StrategyResult(strategies[d_sidx + 1], core_key) :
          LET name == strategies[d_sidx + 1]
              got == IF o.raised THEN pdf_content ELSE o.content
          IN  /\ pdf_content' = got
              /\ successful_strategy' =
                    IF ~o.raised /\ PyTruthy(got) THEN name
                    ELSE successful_strategy
              /\ invoked' = Append(invoked, [name |-> name,
                                             ok |-> ~o.raised /\ PyTruthy(got)])
              /\ first_raised' =
                    IF o.raised /\ first_raised = 0 THEN d_sidx + 1
                    ELSE first_raised
              /\ d_pc' = AfterCall(o.raised, got)
    /\ d_sidx' = d_sidx + 1
    /\ UNCHANGED <<sessionVars, searchVars, stage1Vars, page3Vars, core_key,
                   use_scihub, selected_papers, d_idx, strategies,
                   results_success, results_failed, exhausted>>

\* the loop ran off the end of the chain
ChainExhausted ==
    /\ d_pc = "chain"
    /\ d_sidx = Len(strategies)
    /\ exhausted' =
          IF \A k \in DOMAIN invoked : ~invoked[k].ok
          THEN exhausted \cup {d_idx}
          ELSE exhausted
    /\ d_pc' = "save"
    /\ UNCHANGED <<sessionVars, searchVars, stage1Vars, page3Vars, core_key,
                   use_scihub, selected_papers, d_idx, strategies, d_sidx,
                   pdf_content, successful_strategy, results_success,
                   results_failed, invoked, first_raised>>

SavePaper ==
    /\ d_pc = "save"
    /\ LET r == RecordResult(results_success, results_failed,
                             selected_papers[d_idx + 1], pdf_content,
                             successful_strategy)
       IN  /\ results_success' = r.success
           /\ results_failed' = r.failed
    /\ d_idx' = d_idx + 1
    /\ d_pc' = "paper"
    /\ UNCHANGED <<sessionVars, searchVars, stage1Vars, page3Vars, core_key,
                   use_scihub, selected_papers, strategies, d_sidx,
                   pdf_content, successful_strategy, invoked, first_raised,
                   exhausted>>

\* the loop over the papers is over: the summary is shown
FinishDownload ==
    /\ d_pc = "paper"
    /\ d_idx = Len(selected_papers)
    /\ d_pc' = "done"
    /\ UNCHANGED <<sessionVars, searchVars, stage1Vars, page3Vars, core_key,
                   use_scihub, selected_papers, d_idx, strategies, d_sidx,
                   pdf_content, successful_strategy, results_success,
                   results_failed, invoked, first_raised, exhausted>>

\* Any later run of the script (a widget touched, or the page opened again
\* from another one) finds the button False: the handler is skipped and
\* `results` and its other locals are gone.
RerunPage ==
    /\ d_pc = "done"
    /\ d_pc' = "idle"
    /\ selected_papers' = <<>>
    /\ d_idx' = 0
    /\ strategies' = <<>>
    /\ d_sidx' = 0
    /\ pdf_content' = NoBytes
    /\ successful_strategy' = "None"
    /\ results_success' = <<>>
    /\ results_failed' = <<>>
    /\ invoked' = <<>>
    /\ first_raised' = 0
    /\ exhausted' = {}
    /\ UNCHANGED <<sessionVars, searchVars, stage1Vars, page3Vars, core_key,
                   use_scihub>>

DownloadIdle ==
    /\ d_pc = "idle"
    /\ selected_papers = <<>>
    /\ d_idx = 0
    /\ strategies = <<>>
    /\ d_sidx = 0
    /\ pdf_content = NoBytes
    /\ successful_strategy = "None"
    /\ results_success = <<>>
    /\ results_failed = <<>>
    /\ invoked = <<>>
    /\ first_raised = 0
    /\ exhausted = {}

----------------------------------------------------------------------------
(* specifications *)

SessionEmpty ==
    /\ all_papers = <<>>
    /\ scored_papers = <<>>
    /\ selected_paper_ids = {}
    /\ download_results = NoDownloadResults

NoDownloadKeys == core_key = FALSE /\ use_scihub = FALSE

\* ---- the search page, from an empty session
SearchInit ==
    /\ serp_key \in BOOLEAN
    /\ openai_key \in BOOLEAN
    /\ SessionEmpty
    /\ SearchIdle
    /\ Stage1Idle
    /\ Page3Idle
    /\ NoDownloadKeys
    /\ DownloadIdle

\* One search run is followed from the click to its end: the handler never
\* reads what an earlier run stored.
FirstSearch == search_outcome \in {"none", "no_keys"}

SearchNext ==
    \/ RunSearchNoKeys
    \/ FirstSearch /\ RunSearch
    \/ GenerateQueries
    \/ MergeResearch
    \/ MergeReview
    \/ MergeThesis
    \/ EndLane
    \/ SaveResults

SpecSearch == SearchInit /\ [][SearchNext]_vars

\* ---- llm_filter_stage_1 on drawn inputs
Stage1Init ==
    /\ serp_key = FALSE
    /\ openai_key = FALSE
    /\ SessionEmpty
    /\ SearchIdle
    /\ s1_papers \in {PoolOfSize(k) : k \in (0..MaxPool) \cup {ShortlistSize + 1}}
    /\ s1_response \in IndexLists(Len(s1_papers))
    /\ s1_result = Stage1Pending
    /\ Page3Idle
    /\ NoDownloadKeys
    /\ DownloadIdle

Stage1Next == ApplyStage1

SpecStage1 == Stage1Init /\ [][Stage1Next]_vars

\* ---- the scoring page over a stored candidate pool
PoolTitle(i) ==
    IF i = 1 THEN <<"a", " ", "b">>
    ELSE IF i = 2 THEN <<"a", " ", " ", "b">>
    ELSE TitleOfLen(i - 2)

LaneTypes == <<"Research", "Review", "Thesis">>

\* a pool as the search stores it: k papers with different lowercased titles,
\* the type of paper i being the lane at place i + shift
StoredPool(k, shift) ==
    [i \in 1..k |-> [title |-> PoolTitle(i), source |-> "Google Scholar",
                     type |-> LaneTypes[((i + shift) % 3) + 1]]]

\* scores of a pool: falling, rising, or equal in pairs
ScoreAt(i, shape) ==
    IF shape = "falling" THEN 100 - i
    ELSE IF shape = "rising" THEN 10 + i
    ELSE 50 + (i % 2)

\* categories of a pool: one category throughout, or the three in turn
CategoryAt(i, mix) ==
    IF mix = "mixed" THEN LaneTypes[(i % 3) + 1] ELSE mix

\* a pool as llm_score_stage_2 stores it when every call succeeds
ScoredPool(k, mix, shape) ==
    [i \in 1..k |->
        [title |-> PoolTitle(i),
         source |-> "Google Scholar",
         type |-> CategoryAt(i, mix),
         relevance_score |-> ScoreAt(i, shape),
         category |-> CategoryAt(i, mix),
         id |-> [idx |-> i - 1, hash |-> generate_paper_id(PoolTitle(i))]]]

RefineInit ==
    /\ serp_key \in BOOLEAN
    /\ openai_key \in BOOLEAN
    /\ all_papers \in {StoredPool(k, sh) : k \in 1..MaxPool, sh \in {0, 2}}
    /\ scored_papers \in {<<>>, ScoredPool(MaxPool, "mixed", "falling")}
    /\ selected_paper_ids = {}
    /\ download_results = NoDownloadResults
    /\ SearchIdle
    /\ Stage1Idle
    /\ Page3Idle
    /\ NoDownloadKeys
    /\ DownloadIdle

\* One refinement run is followed from the click to its end, from a session
\* that may already hold a scored pool and a selection.  The search page can
\* be opened in between; without its keys its button only reports.
FirstRefinement == refine_outcome \in {"none", "no_key"}

RefineNext ==
    \/ RunSearchNoKeys
    \/ StartRefinementNoKey
    \/ FirstRefinement /\ StartRefinement
    \/ ScoreItem
    \/ StoreScored
    \/ Checkbox
    \/ ClickRemove

SpecRefine == RefineInit /\ [][RefineNext]_vars

\* ---- the selection widgets over a stored scored pool
MaxScored == 7

SelectInit ==
    /\ serp_key = TRUE
    /\ openai_key = TRUE
    /\ all_papers = <<>>
    /\ scored_papers \in
          {ScoredPool(k, mix, shape) :
              k \in 1..MaxScored,
              mix \in {"Review", "Thesis", "mixed"},
              shape \in {"falling", "rising", "paired"}}
    /\ selected_paper_ids = {}
    /\ download_results = NoDownloadResults
    /\ SearchIdle
    /\ Stage1Idle
    /\ Page3Idle
    /\ NoDownloadKeys
    /\ DownloadIdle

SelectNext ==
    \/ Checkbox
    \/ ClickRemove

SpecSelect == SelectInit /\ [][SelectNext]_vars

\* ---- the download page over a scored pool with a selection
MaxDocs == 2

DownloadInit ==
    /\ serp_key \in BOOLEAN
    /\ openai_key = TRUE
    /\ all_papers = <<>>
    /\ scored_papers \in
          {ScoredPool(k, mix, "falling") :
              k \in 1..MaxDocs, mix \in {"Thesis", "mixed"}}
    /\ selected_paper_ids \in
          (SUBSET {scored_papers[i].id : i \in DOMAIN scored_papers}) \ {{}}
    /\ download_results = NoDownloadResults
    /\ SearchIdle
    /\ Stage1Idle
    /\ Page3Idle
    /\ core_key = FALSE
    /\ use_scihub \in BOOLEAN
    /\ DownloadIdle

DownloadNext ==
    \/ StartDownload
    \/ BeginPaper
    \/ TryStrategy
    \/ ChainExhausted
    \/ SavePaper
    \/ FinishDownload
    \/ RerunPage

SpecDownload == DownloadInit /\ [][DownloadNext]_vars

----------------------------------------------------------------------------
(* C1 *)

IsSpace(c) == c = " "

\* a blank is kept when it follows a non-blank and a non-blank comes later
KeptAt(t, i) ==
    \/ ~IsSpace(t[i])
    \/ /\ i > 1
       /\ ~IsSpace(t[i - 1])
       /\ \E j \in (i + 1)..Len(t) : ~IsSpace(t[j])

RECURSIVE CollapseFrom(_, _)
CollapseFrom(t, i) ==
    IF i > Len(t) THEN <<>>
    ELSE IF KeptAt(t, i) THEN <<t[i]>> \o CollapseFrom(t, i + 1)
    ELSE CollapseFrom(t, i + 1)

\* the identity key of a candidate: lowercased, whitespace-collapsed title
NormalizedTitle(t) == CollapseFrom(Lower(t), 1)

\* the search ran to the end and stored the pool built from `encountered`
SearchStored == search_outcome = "stored"

FirstWithKey(n) ==
    CHOOSE i \in DOMAIN encountered :
        /\ Truthy(encountered[i].title)
        /\ NormalizedTitle(encountered[i].title) = n
        /\ \A j \in 1..(i - 1) :
              ~(Truthy(encountered[j].title)
                /\ NormalizedTitle(encountered[j].title) = n)

\* C1: after a search, for every candidate met, the pool holds exactly one
\* candidate with its normalized title, and it is the first one met with that
\* normalized title in dispatch order.
C1_DedupByNormalizedTitle ==
    SearchStored =>
        \A i \in DOMAIN encountered :
            Truthy(encountered[i].title) =>
                LET n == NormalizedTitle(encountered[i].title)
                    same == {k \in DOMAIN all_papers :
                                all_papers[k].title # None
                                /\ NormalizedTitle(all_papers[k].title) = n}
                    f == encountered[FirstWithKey(n)]
                IN  /\ Cardinality(same) = 1
                    /\ \A k \in same :
                          /\ all_papers[k].title = f.title
                          /\ all_papers[k].source = f.source

----------------------------------------------------------------------------
(* C7 *)

\* how often paper x occurs in the list q
Occurrences(q, x) == Cardinality({k \in DOMAIN q : q[k] = x})

\* 1 when index i is named by the answer, else 0
Named(i) == IF i \in Elems(s1_response) THEN 1 ELSE 0

\* C7: for a pool of length K and any list of indices, an index >= K is
\* discarded without raising (the call raises only for an index below -K), and
\* an index named several times contributes exactly one candidate: the paper
\* at position q occurs once for q if q is named and once for q - K if that is
\* named, and the output holds nothing else.
C7_Stage1IndexSafety ==
    s1_result.done =>
        LET K == Len(s1_papers)
        IN  /\ s1_result.raised <=> \E i \in Elems(s1_response) : i < -K
            /\ ~s1_result.raised =>
                  /\ \A q \in 0..(K - 1) :
                        Occurrences(s1_result.out, s1_papers[q + 1]) =
                            Named(q) + Named(q - K)
                  /\ Len(s1_result.out) =
                        Cardinality({i \in Elems(s1_response) : i < K})

\* an answer naming an index twice and an index >= K was applied
C7_Witness ==
    /\ s1_result.done
    /\ ~s1_result.raised
    /\ Len(s1_papers) = MaxPool
    /\ \E a, b \in DOMAIN s1_response :
          a # b /\ s1_response[a] = s1_response[b] /\ s1_response[a] = 0
    /\ \E a \in DOMAIN s1_response : s1_response[a] >= Len(s1_papers)
    /\ Len(s1_result.out) = 1

----------------------------------------------------------------------------
(* C8 *)

\* C8: llm_filter_stage_1 returns at most 50 candidates.
C8_Stage1AtMostFifty ==
    (s1_result.done /\ ~s1_result.raised) =>
        Len(s1_result.out) <= ShortlistSize

----------------------------------------------------------------------------
(* C2 *)

\* the first call of the current paper that returned bytes taken as a result
FirstOk == CHOOSE k \in DOMAIN invoked : invoked[k].ok

\* C2: for every paper the strategies are called in chain order, no strategy
\* is called after one has returned accepted bytes, and the name recorded (in
\* successful_strategy and in results['success']) is that of the first
\* strategy that returned them.
C2_ShortCircuit ==
    /\ d_pc \in {"chain", "save"} =>
          /\ Len(invoked) = d_sidx
          /\ d_sidx <= Len(strategies)
          /\ \A k \in DOMAIN invoked : invoked[k].name = strategies[k]
          /\ \A k \in DOMAIN invoked : invoked[k].ok => k = Len(invoked)
          /\ IF \E k \in DOMAIN invoked : invoked[k].ok
             THEN successful_strategy = invoked[FirstOk].name
             ELSE successful_strategy = "None"
    /\ (d_pc \in {"paper", "done"} /\ d_idx > 0
        /\ \E k \in DOMAIN invoked : invoked[k].ok) =>
          /\ \A k \in DOMAIN invoked : invoked[k].ok => k = Len(invoked)
          /\ results_success # <<>>
          /\ results_success[Len(results_success)].paper =
                selected_papers[d_idx]
          /\ results_success[Len(results_success)].strategy =
                invoked[FirstOk].name

\* the first strategy returned nothing usable, the second returned bytes, and
\* the chain stopped there with the second one's name
C2_Witness ==
    /\ d_pc = "save"
    /\ Len(invoked) = 2
    /\ ~invoked[1].ok
    /\ first_raised = 0
    /\ invoked[2].ok
    /\ successful_strategy = "Unpaywall"
    /\ Len(strategies) > 2

----------------------------------------------------------------------------
(* C3 *)

\* the last paper processed was saved as a success
LastSaved ==
    /\ d_pc \in {"paper", "done"}
    /\ d_idx > 0
    /\ results_success # <<>>
    /\ results_success[Len(results_success)].paper = selected_papers[d_idx]

\* C3: every byte string written to disk and listed in results['success']
\* starts with the PDF signature and is longer than the signature alone (the
\* least a minimum-length threshold can ask).
C3_AcceptedBytesVerified ==
    LastSaved =>
        /\ StartsWith(pdf_content.bytes, PDF_SIGNATURE)
        /\ Len(pdf_content.bytes) > Len(PDF_SIGNATURE)

----------------------------------------------------------------------------
(* C4 *)

\* C4: for a paper whose category is Thesis, KrishiKosh Direct is called
\* before any other strategy.
C4_ThesisPromotion ==
    (d_pc \in {"chain", "save"}
     /\ selected_papers[d_idx + 1].category = "Thesis") =>
        \A k \in DOMAIN invoked :
            invoked[k].name # "KrishiKosh Direct" =>
                \E j \in 1..(k - 1) : invoked[j].name = "KrishiKosh Direct"

----------------------------------------------------------------------------
(* C5 *)

Min(a, b) == IF a < b THEN a ELSE b

----------------------------------------------------------------------------
(* C6 *)

\* C6: a widget handler that asks to add an id already selected, or to take
\* out an id not selected, leaves the Selection as it was, and no widget
\* handler raises.
C6_SelectionIdempotent ==
    /\ ~last_widget.raised
    /\ last_widget.kind # "none" => selected_paper_ids = last_widget.after
    /\ (last_widget.kind = "check" /\ last_widget.id \in last_widget.before)
          => last_widget.after = last_widget.before
    /\ (last_widget.kind \in {"uncheck", "remove"}
        /\ last_widget.id \notin last_widget.before)
          => last_widget.after = last_widget.before

\* the unchecked checkbox of a paper that is not selected was handled while
\* other papers were selected
C6_Witness ==
    /\ last_widget.kind = "uncheck"
    /\ last_widget.id \notin last_widget.before
    /\ last_widget.before # {}
    /\ selected_paper_ids = last_widget.before

----------------------------------------------------------------------------
(* C9 *)

\* loop indices of the run whose scoring call succeeded
ScoredOk == {i \in 0..(Len(score_log) - 1) : score_log[i + 1]}

\* the list holds one record per successful call, in input order
HoldsSuccessesInOrder(out) ==
    /\ Len(out) = Cardinality(ScoredOk)
    /\ \A k \in DOMAIN out :
          /\ out[k].id.idx \in ScoredOk
          /\ out[k].title = top_candidates[out[k].id.idx + 1].title
    /\ \A j, k \in DOMAIN out : j < k => out[j].id.idx < out[k].id.idx

\* C9: a failed scoring call drops that candidate only: the loop goes on to
\* the last candidate, and the stored pool holds every candidate whose call
\* succeeded, in input order, and none whose call failed.
C9_Stage2FailureIsolation ==
    /\ refine_outcome = "running" =>
          /\ r_pc = "stage2"
          /\ Len(score_log) = r_i
          /\ HoldsSuccessesInOrder(refined_papers)
    /\ refine_outcome = "stored" =>
          /\ Len(score_log) = Len(top_candidates)
          /\ HoldsSuccessesInOrder(scored_papers)

\* a run was stored in which the first call failed and the second succeeded
C9_Witness ==
    /\ refine_outcome = "stored"
    /\ score_log = <<FALSE, TRUE>>
    /\ Len(scored_papers) = 1

----------------------------------------------------------------------------
(* C10 *)

SuccessPapers == {results_success[k].paper : k \in DOMAIN results_success}

FailedPapers == {results_failed[k] : k \in DOMAIN results_failed}

\* C10: a paper whose every strategy returned nothing or raised is listed as
\* failed and not as a success, the run goes on through the papers after it,
\* and after the run each selected paper is in exactly one of the two lists.
C10_TotalFailure ==
    /\ d_pc \in {"paper", "done"} =>
          \A i \in exhausted :
              /\ i < d_idx
              /\ selected_papers[i + 1] \in FailedPapers
              /\ selected_papers[i + 1] \notin SuccessPapers
    /\ d_pc = "done" =>
          /\ d_idx = Len(selected_papers)
          /\ Len(results_success) + Len(results_failed) = Len(selected_papers)
          /\ \A i \in DOMAIN selected_papers :
                selected_papers[i] \in SuccessPapers
                    <=> selected_papers[i] \notin FailedPapers

\* the first paper's chain gave nothing and the paper after it was retrieved
C10_Witness ==
    /\ d_pc = "done"
    /\ 0 \in exhausted
    /\ Len(selected_papers) = 2
    /\ Len(results_failed) = 1
    /\ Len(results_success) = 1

----------------------------------------------------------------------------
(* C11 *)

\* the chain of the paper last taken up has ended
ChainEnded == d_pc = "save" \/ (d_pc \in {"paper", "done"} /\ d_idx > 0)

\* C11: a strategy call that raises does not end the chain: the strategies
\* after it are called in chain order, and the chain ends only with a call
\* that returned accepted bytes or with the last strategy of the chain.
C11_StrategyFaultIsolation ==
    /\ ChainEnded =>
          \/ invoked # <<>> /\ invoked[Len(invoked)].ok
          \/ Len(invoked) = Len(strategies)
    /\ (d_pc \in {"chain", "save"} /\ first_raised > 0) =>
          /\ first_raised <= Len(invoked)
          /\ ~invoked[first_raised].ok
          /\ \A k \in first_raised..Len(invoked) :
                invoked[k].name = strategies[k]

\* the first strategy raised, the second returned nothing and the third
\* returned bytes
C11_Witness ==
    /\ d_pc = "save"
    /\ first_raised = 1
    /\ Len(invoked) = 3
    /\ invoked[3].ok
    /\ successful_strategy = "CORE API"

----------------------------------------------------------------------------
(* C12 *)

RiskyStrategy == "Sci-Hub"

\* C12: Sci-Hub is in a chain only when the checkbox was ticked and then only
\* as its last element, and it is called only when ticked and after every
\* other strategy of the chain was called and gave nothing.
C12_RiskyStrategyGated ==
    /\ \A k \in DOMAIN strategies :
          strategies[k] = RiskyStrategy => use_scihub /\ k = Len(strategies)
    /\ (use_scihub /\ strategies # <<>>) =>
          strategies[Len(strategies)] = RiskyStrategy
    /\ \A k \in DOMAIN invoked :
          invoked[k].name = RiskyStrategy =>
              /\ use_scihub
              /\ k = Len(strategies)
              /\ \A j \in 1..(k - 1) :
                    ~invoked[j].ok /\ invoked[j].name = strategies[j]

\* with the checkbox ticked every other strategy failed and Sci-Hub, called
\* last, returned bytes
C12_Witness ==
    /\ use_scihub
    /\ d_pc = "save"
    /\ Len(invoked) = Len(strategies)
    /\ invoked[Len(invoked)].name = RiskyStrategy
    /\ invoked[Len(invoked)].ok

----------------------------------------------------------------------------
(* C13 *)

\* the formatted ids of a list differ pairwise
UniqueIds(q) ==
    \A j, k \in DOMAIN q : j # k => FormatId(q[j].id) # FormatId(q[k].id)

\* C13: in the list llm_score_stage_2 builds and in every stored scored pool
\* no two candidates have the same id string, also when two of them have the
\* same title.
C13_StableIdUnique ==
    /\ UniqueIds(refined_papers)
    /\ UniqueIds(scored_papers)

\* a stored pool in which the same paper, shortlisted twice, was scored twice
C13_Witness ==
    /\ refine_outcome = "stored"
    /\ Len(scored_papers) = 2
    /\ scored_papers[1].title = scored_papers[2].title
    /\ scored_papers[1].id # scored_papers[2].id

----------------------------------------------------------------------------
(* C14 *)

\* the step in which a refinement run stores its pool over the earlier one
StoresPool == r_pc = "stage2" /\ r_pc' = "idle"

\* C14: a title scored by the earlier run and by the run that ends has the
\* same id string in both pools.
C14_StableIdDeterministic ==
    [][StoresPool =>
          \A j \in DOMAIN scored_papers : \A k \in DOMAIN scored_papers' :
              scored_papers[j].title = scored_papers'[k].title =>
                  FormatId(scored_papers[j].id) = FormatId(scored_papers'[k].id)
      ]_vars

----------------------------------------------------------------------------
(* C16 *)

CategoryLabels == {"Research", "Review", "Thesis"}

\* C16: every candidate scored by Stage 2 has a category among Research,
\* Review and Thesis.
C16_CategoryInDomain ==
    /\ \A k \in DOMAIN refined_papers :
          refined_papers[k].category \in CategoryLabels
    /\ \A k \in DOMAIN scored_papers :
          scored_papers[k].category \in CategoryLabels

----------------------------------------------------------------------------
(* C17 *)

\* C17: every candidate scored by Stage 2 has a relevance_score in 0..100.
C17_ScoreInRange ==
    /\ \A k \in DOMAIN refined_papers :
          refined_papers[k].relevance_score \in 0..100
    /\ \A k \in DOMAIN scored_papers :
          scored_papers[k].relevance_score \in 0..100

----------------------------------------------------------------------------
(* C18 *)

\* C18: a scored candidate whose lane tag is Research, Review or Thesis has
\* that tag as its category.
C18_LaneTagWins ==
    /\ \A k \in DOMAIN refined_papers :
          refined_papers[k].type \in CategoryLabels =>
              refined_papers[k].category = refined_papers[k].type
    /\ \A k \in DOMAIN scored_papers :
          scored_papers[k].type \in CategoryLabels =>
              scored_papers[k].category = scored_papers[k].type

----------------------------------------------------------------------------
(* C19 *)

\* C19: in the step that stores the pool of a finished scoring run the
\* Selection becomes empty.
C19_SelectionReset ==
    [][StoresPool =>
          /\ scored_papers' = refined_papers
          /\ selected_paper_ids' = {}
      ]_vars

\* papers of the earlier pool were selected (no widget runs while the handler
\* does), the run was stored and nothing is selected
C19_Witness ==
    /\ refine_outcome = "stored"
    /\ last_widget.kind = "check"
    /\ last_widget.after # {}
    /\ selected_paper_ids = {}

----------------------------------------------------------------------------
(* C15 *)

\* how many of the three groups hold paper p
GroupsHolding(p) ==
    Occurrences(<<p.category = "Research Article",
                  p.category = "Review Paper",
                  p.category = "Thesis">>, TRUE)

\* C15: on the download page every selected paper is in exactly one of the
\* three category groups, and the three counts add up to the number of
\* selected papers.
C15_CategoryGroupsPartition ==
    d_pc # "idle" =>
        /\ \A k \in DOMAIN selected_papers : GroupsHolding(selected_papers[k]) = 1
        /\ Len(research_papers) + Len(review_papers) + Len(theses) =
              Len(selected_papers)

----------------------------------------------------------------------------
(* C20 *)

\* C20: when the page is run again after a download run that retrieved at
\* least one paper, the session holds download_results and the count the
\* dashboard reads from it is the number of papers retrieved.
C20_ResultsPersist ==
    [][(d_pc = "done" /\ d_pc' = "idle" /\ results_success # <<>>) =>
          /\ download_results'.present
          /\ DashboardDownloaded' = Len(results_success)
      ]_vars

----------------------------------------------------------------------------
(* C21 *)

\* the search handler is at no place where it calls out, and has met no hit
SearchMadeNoCall ==
    /\ pc = "idle"
    /\ search_outcome \in {"none", "no_keys"}
    /\ all_results = <<>>
    /\ encountered = <<>>

\* the refinement handler is at no place where it calls out, and no triage
\* or scoring call was answered
RefinementMadeNoCall ==
    /\ r_pc = "idle"
    /\ refine_outcome \in {"none", "no_key"}
    /\ top_candidates = <<>>
    /\ score_log = <<>>

\* the step in which a handler reports a missing key
ReportsMissingKey ==
    \/ search_outcome # "no_keys" /\ search_outcome' = "no_keys"
    \/ refine_outcome # "no_key" /\ refine_outcome' = "no_key"

\* C21: without both search keys the search handler never calls out, without
\* the OpenAI key the refinement handler never calls out, and the step that
\* reports the missing key leaves the candidate pool, the scored pool and the
\* Selection as they were.
C21_ConfigErrorBeforeAnyCall ==
    /\ [](~(serp_key /\ openai_key) => SearchMadeNoCall)
    /\ [](~openai_key => RefinementMadeNoCall)
    /\ [][ReportsMissingKey =>
             UNCHANGED <<all_papers, scored_papers, selected_paper_ids>>]_vars

\* both buttons reported a missing key over a session holding a candidate
\* pool, a scored pool and a selection
C21_Witness ==
    /\ search_outcome = "no_keys"
    /\ refine_outcome = "no_key"
    /\ all_papers # <<>>
    /\ scored_papers # <<>>
    /\ selected_paper_ids # {}

----------------------------------------------------------------------------
(* C22 *)

\* C22: without the CORE key the CORE API strategy yields nothing for any
\* paper, and without the SerpAPI key the Google Scholar strategy is not
\* called.
C22_MissingKeyDegrades ==
    /\ ~core_key =>
          \A k \in DOMAIN invoked :
              invoked[k].name = "CORE API" => ~invoked[k].ok
    /\ ~serp_key =>
          \A k \in DOMAIN invoked : invoked[k].name # "Google Scholar"

----------------------------------------------------------------------------
(* C23 *)

\* place of an entry in the scored pool (the ids of a pool differ)
PoolPlace(p) == CHOOSE i \in DOMAIN scored_papers : scored_papers[i].id = p.id

\* q goes down by score, and entries of equal score are in pool order
RankedStable(q) ==
    \A j, k \in DOMAIN q :
        j < k =>
            \/ q[j].relevance_score > q[k].relevance_score
            \/ /\ q[j].relevance_score = q[k].relevance_score
               /\ PoolPlace(q[j]) < PoolPlace(q[k])

\* C23: the categories come in the order Research, Review, Thesis, and in
\* each the list of the category holds exactly the pool's entries of that
\* category, by falling relevance_score with entries of equal score in pool
\* order; the selected and the offered lists keep that order.
C23_SelectorOrdering ==
    /\ [c \in DOMAIN categories |-> categories[c].key] =
          <<"Research", "Review", "Thesis">>
    /\ \A c \in DOMAIN categories :
          LET cat == categories[c]
          IN  /\ Elems(cat_papers(cat)) =
                    {p \in Elems(scored_papers) : p.category = cat.key}
              /\ Len(cat_papers(cat)) = Cardinality(Elems(cat_papers(cat)))
              /\ RankedStable(cat_papers(cat))
              /\ RankedStable(selected_in_cat(cat))
              /\ RankedStable(display_list(cat))

\* a category with two entries of equal score around one of another score in
\* the pool, and entries both selected and offered
C23_Witness ==
    \E c \in DOMAIN categories :
        LET q == cat_papers(categories[c])
        IN  /\ Len(q) >= 3
            /\ q[1].relevance_score = q[2].relevance_score
            /\ PoolPlace(q[2]) > PoolPlace(q[1]) + 1
            /\ q[3].relevance_score < q[2].relevance_score
            /\ selected_in_cat(categories[c]) # <<>>
            /\ Len(display_list(categories[c])) >= 2

----------------------------------------------------------------------------
(* C24 *)

\* how many records of q were made at loop index i
RecordsAt(q, i) == Cardinality({k \in DOMAIN q : q[k].id.idx = i})

\* C24: llm_score_stage_2 makes one scoring call per shortlisted candidate,
\* a failed call included, and its output holds one record for an index
\* whose call succeeded and none for an index whose call failed.
C24_ScoredExactlyOnce ==
    /\ refine_outcome = "running" =>
          /\ r_i <= Len(top_candidates)
          /\ Len(score_log) = r_i
    /\ refine_outcome = "stored" => Len(score_log) = Len(top_candidates)
    /\ refine_outcome \in {"running", "stored"} =>
          \A i \in 0..(Len(top_candidates) - 1) :
              RecordsAt(refined_papers, i) =
                  IF i < Len(score_log) /\ score_log[i + 1] THEN 1 ELSE 0

\* a run over two candidates was stored: the first call succeeded, the second
\* failed and was not made again
C24_Witness ==
    /\ refine_outcome = "stored"
    /\ Len(top_candidates) = 2
    /\ score_log = <<TRUE, FALSE>>
    /\ Len(scored_papers) = 1
    /\ scored_papers[1].id.idx = 0

----------------------------------------------------------------------------
(* C25 *)

\* C25: in the list llm_filter_stage_1 returns no paper of the pool occurs
\* twice, and every returned paper is at a position 0..K-1 named by the
\* answer.
C25_Stage1NoRepeatedPosition ==
    (s1_result.done /\ ~s1_result.raised) =>
        LET K == Len(s1_papers)
        IN  /\ \A q \in 0..(K - 1) :
                  Occurrences(s1_result.out, s1_papers[q + 1]) <= 1
            /\ \A k \in DOMAIN s1_result.out :
                  \E q \in 0..(K - 1) :
                      /\ q \in Elems(s1_response)
                      /\ s1_result.out[k] = s1_papers[q + 1]

----------------------------------------------------------------------------
(* C26 *)

\* the step in which an adapter hit without a title is met
MeetsNullTitle ==
    /\ Len(encountered') = Len(encountered) + 1
    /\ encountered'[Len(encountered')].title = None

\* C26: a hit whose title is missing is skipped in every lane: the pool
\* being built is as before and the handler goes on in the same lane.
C26_NullTitleSkipped ==
    [][MeetsNullTitle =>
          /\ all_results' = all_results
          /\ pc' = pc
          /\ search_outcome' = search_outcome
      ]_vars

----------------------------------------------------------------------------
(* C27 *)

PoolIds == {scored_papers[i].id : i \in DOMAIN scored_papers}

\* 4_PDF_Downloader.py line 340, as the page would compute it now
PageSelectedPapers ==
    SelectSeq(scored_papers, LAMBDA p : p.id \in selected_paper_ids)

\* C27: every selected id is the id of an entry of the stored scored pool,
\* and the downloader's list of selected papers has as many entries as the
\* Selection has ids.
C27_SelectionWithinPool ==
    /\ selected_paper_ids \subseteq PoolIds
    /\ Len(PageSelectedPapers) = Cardinality(selected_paper_ids)

\* a run was stored and then one of the two papers of its pool was selected
C27_Witness ==
    /\ refine_outcome = "stored"
    /\ Len(scored_papers) = 2
    /\ last_widget.kind = "check"
    /\ Cardinality(selected_paper_ids) = 1
    /\ Len(PageSelectedPapers) = 1

====
